---- MODULE Spec2Model ----
(***************************************************************************)
(* The node modal of the JSON graph editor                                 *)
(* (src/features/modals/NodeModal/index.tsx): its React state (isEditing,  *)
(* value, error), the three stores it writes (file contents, json, graph), *)
(* the selected node and the re-selection timers that handleSave           *)
(* schedules.                                                              *)
(*                                                                         *)
(* A text (the edit buffer, a document) is a sequence of one-character     *)
(* strings.  A JSON value is a record tagged by t; each tag has its own    *)
(* field names, so two values of different JSON types are always           *)
(* comparable.                                                             *)
(***************************************************************************)
EXTENDS Integers, Sequences, FiniteSets, TLC

(***************************************************************************)
(* JavaScript values                                                       *)
(***************************************************************************)
JNull == [t |-> "null"]

JUndefined == [t |-> "undefined"]

JBool(b) == [t |-> "boolean", b |-> b]

\* a number: sign, integer part, fraction digits without trailing zeros
JNum(neg, n, f) == [t |-> "number", neg |-> neg, n |-> n, f |-> f]

JInt(n) == JNum(FALSE, n, <<>>)

JStr(s) == [t |-> "string", s |-> s]

JArr(a) == [t |-> "array", a |-> a]

\* an object: its properties in insertion order, each [k |-> text, v |-> value]
JObj(o) == [t |-> "object", o |-> o]

IsObject(v) == v.t = "object"

\* typeof v === "object" && v !== null && !Array.isArray(v)
IsPlainObject(v) == IsObject(v)

Keys(o) == {o[i].k : i \in DOMAIN o}

HasKey(o, k) == \E i \in DOMAIN o : o[i].k = k

KeyIndex(o, k) == CHOOSE i \in DOMAIN o : o[i].k = k

Field(o, k) == IF HasKey(o, k) THEN o[KeyIndex(o, k)].v ELSE JUndefined

\* obj[k] = v: an existing property keeps its place, a new one goes last
ObjSet(o, k, v) ==
  IF HasKey(o, k)
  THEN [o EXCEPT ![KeyIndex(o, k)] = [k |-> k, v |-> v]]
  ELSE Append(o, [k |-> k, v |-> v])

(***************************************************************************)
(* Characters                                                              *)
(***************************************************************************)
Digits == <<"0", "1", "2", "3", "4", "5", "6", "7", "8", "9">>

DigitSet == {Digits[i] : i \in DOMAIN Digits}

DigitVal(c) == (CHOOSE i \in DOMAIN Digits : Digits[i] = c) - 1

\* white space of the JSON grammar
JsonWs == {" ", "\t", "\n", "\r"}

\* white space String.prototype.trim removes (the part the alphabet has)
JsWs == {" ", "\t", "\n", "\r", "\f"}

\* characters a JSON string must escape, with the letter of the escape
Escapes ==
  <<[c |-> "\"", e |-> "\""], [c |-> "\\", e |-> "\\"], [c |-> "\n", e |-> "n"],
    [c |-> "\t", e |-> "t"], [c |-> "\r", e |-> "r"], [c |-> "\f", e |-> "f"]>>

Escaped == {Escapes[i].c : i \in DOMAIN Escapes}

EscapeLetters == {Escapes[i].e : i \in DOMAIN Escapes}

EscapeOf(c) == Escapes[CHOOSE i \in DOMAIN Escapes : Escapes[i].c = c].e

UnescapeOf(e) == Escapes[CHOOSE i \in DOMAIN Escapes : Escapes[i].e = e].c

RECURSIVE Concat(_)
Concat(ss) == IF ss = <<>> THEN <<>> ELSE Head(ss) \o Concat(Tail(ss))

(***************************************************************************)
(* Numbers and strings to text                                             *)
(***************************************************************************)
RECURSIVE NatText(_)
NatText(n) == IF n < 10 THEN <<Digits[n + 1]>> ELSE NatText(n \div 10) \o <<Digits[(n % 10) + 1]>>

\* Number.prototype.toString: -0 prints as 0
NumText(v) ==
  (IF v.neg /\ ~(v.n = 0 /\ v.f = <<>>) THEN <<"-">> ELSE <<>>)
    \o NatText(v.n) \o (IF v.f = <<>> THEN <<>> ELSE <<".">> \o v.f)

RECURSIVE EscapeText(_)
EscapeText(s) ==
  IF s = <<>> THEN <<>>
  ELSE (IF Head(s) \in Escaped THEN <<"\\", EscapeOf(Head(s))>> ELSE <<Head(s)>>)
         \o EscapeText(Tail(s))

Quote(s) == <<"\"">> \o EscapeText(s) \o <<"\"">>

\* the template literal `${v}` of a primitive
ToStr(v) ==
  CASE v.t = "string" -> v.s
    [] v.t = "number" -> NumText(v)
    [] v.t = "boolean" -> IF v.b THEN <<"t", "r", "u", "e">> ELSE <<"f", "a", "l", "s", "e">>
    [] v.t = "null" -> <<"n", "u", "l", "l">>
    [] OTHER -> <<"u", "n", "d", "e", "f", "i", "n", "e", "d">>

Indent(d) == [i \in 1..(2 * d) |-> " "]

RECURSIVE JoinWith(_, _)
JoinWith(parts, sep) ==
  IF parts = <<>> THEN <<>>
  ELSE IF Len(parts) = 1 THEN parts[1]
  ELSE parts[1] \o sep \o JoinWith(Tail(parts), sep)

\* JSON.stringify(v, null, 2) at nesting depth d when pretty, JSON.stringify(v) otherwise
RECURSIVE StringifyAt(_, _, _)
StringifyAt(v, pretty, d) ==
  LET nl == IF pretty THEN <<"\n">> \o Indent(d + 1) ELSE <<>>
      end == IF pretty THEN <<"\n">> \o Indent(d) ELSE <<>>
      colon == IF pretty THEN <<":", " ">> ELSE <<":">>
  IN CASE v.t = "string" -> Quote(v.s)
       [] v.t \in {"number", "boolean", "null"} -> ToStr(v)
       [] v.t = "array" ->
            IF v.a = <<>> THEN <<"[", "]">>
            ELSE <<"[">> \o nl
                   \o JoinWith([i \in DOMAIN v.a |-> StringifyAt(v.a[i], pretty, d + 1)],
                               <<",">> \o nl)
                   \o end \o <<"]">>
       [] v.t = "object" ->
            IF v.o = <<>> THEN <<"{", "}">>
            ELSE <<"{">> \o nl
                   \o JoinWith([i \in DOMAIN v.o |->
                                  Quote(v.o[i].k) \o colon
                                    \o StringifyAt(v.o[i].v, pretty, d + 1)],
                               <<",">> \o nl)
                   \o end \o <<"}">>
       [] OTHER -> <<>>

JSONstringify(v) == StringifyAt(v, FALSE, 0)

JSONstringify2(v) == StringifyAt(v, TRUE, 0)

(***************************************************************************)
(* JSON.parse: a recursive descent over the text.  A result is             *)
(* [ok, v, i]: whether a value was read, the value, the next position.     *)
(* Exponents and \u escapes are outside the alphabet of the model's texts. *)
(***************************************************************************)
Fail == [ok |-> FALSE, v |-> JUndefined, i |-> 0]

Ok(v, i) == [ok |-> TRUE, v |-> v, i |-> i]

RECURSIVE SkipWs(_, _)
SkipWs(s, i) == IF i <= Len(s) /\ s[i] \in JsonWs THEN SkipWs(s, i + 1) ELSE i

At(s, i, c) == i <= Len(s) /\ s[i] = c

Match(s, i, w) == i + Len(w) - 1 <= Len(s) /\ SubSeq(s, i, i + Len(w) - 1) = w

RECURSIVE DigitsEnd(_, _)
DigitsEnd(s, i) == IF i <= Len(s) /\ s[i] \in DigitSet THEN DigitsEnd(s, i + 1) ELSE i

RECURSIVE NatOf(_, _, _, _)
NatOf(s, i, k, acc) == IF i >= k THEN acc ELSE NatOf(s, i + 1, k, 10 * acc + DigitVal(s[i]))

RECURSIVE StripZeros(_)
StripZeros(f) ==
  IF f # <<>> /\ f[Len(f)] = "0" THEN StripZeros(SubSeq(f, 1, Len(f) - 1)) ELSE f

ParseNumber(s, i) ==
  LET neg == At(s, i, "-")
      j == IF neg THEN i + 1 ELSE i
      k == IF At(s, j, "0") THEN j + 1 ELSE DigitsEnd(s, j)
      m == DigitsEnd(s, k + 1)
  IN IF k = j THEN Fail
     ELSE IF At(s, k, ".")
     THEN IF m = k + 1 THEN Fail
          ELSE Ok(JNum(neg, NatOf(s, j, k, 0), StripZeros(SubSeq(s, k + 1, m - 1))), m)
     ELSE Ok(JNum(neg, NatOf(s, j, k, 0), <<>>), k)

RECURSIVE ParseString(_, _, _)
ParseString(s, i, acc) ==
  IF i > Len(s) THEN Fail
  ELSE IF s[i] = "\"" THEN Ok(JStr(acc), i + 1)
  ELSE IF s[i] = "\\"
  THEN IF i + 1 <= Len(s) /\ s[i + 1] \in EscapeLetters
       THEN ParseString(s, i + 2, Append(acc, UnescapeOf(s[i + 1])))
       ELSE Fail
  ELSE IF s[i] \in {"\n", "\t", "\r", "\f"} THEN Fail
  ELSE ParseString(s, i + 1, Append(acc, s[i]))

RECURSIVE ParseValue(_, _)
RECURSIVE ParseElements(_, _, _)
RECURSIVE ParseMembers(_, _, _)

ParseElements(s, i, acc) ==
  LET r == ParseValue(s, i)
      j == SkipWs(s, r.i)
  IN IF ~r.ok THEN Fail
     ELSE IF At(s, j, ",") THEN ParseElements(s, j + 1, Append(acc, r.v))
     ELSE IF At(s, j, "]") THEN Ok(JArr(Append(acc, r.v)), j + 1)
     ELSE Fail

ParseMembers(s, i, acc) ==
  LET j == SkipWs(s, i)
      key == ParseString(s, j + 1, <<>>)
      k == SkipWs(s, key.i)
      val == ParseValue(s, k + 1)
      m == SkipWs(s, val.i)
  IN IF ~At(s, j, "\"") \/ ~key.ok \/ ~At(s, k, ":") \/ ~val.ok THEN Fail
     ELSE IF At(s, m, ",") THEN ParseMembers(s, m + 1, ObjSet(acc, key.v.s, val.v))
     ELSE IF At(s, m, "}") THEN Ok(JObj(ObjSet(acc, key.v.s, val.v)), m + 1)
     ELSE Fail

ParseValue(s, i) ==
  LET j == SkipWs(s, i)
      n == SkipWs(s, j + 1)
  IN IF j > Len(s) THEN Fail
     ELSE IF s[j] = "{"
     THEN IF At(s, n, "}") THEN Ok(JObj(<<>>), n + 1) ELSE ParseMembers(s, j + 1, <<>>)
     ELSE IF s[j] = "["
     THEN IF At(s, n, "]") THEN Ok(JArr(<<>>), n + 1) ELSE ParseElements(s, j + 1, <<>>)
     ELSE IF s[j] = "\"" THEN ParseString(s, j + 1, <<>>)
     ELSE IF s[j] = "-" \/ s[j] \in DigitSet THEN ParseNumber(s, j)
     ELSE IF Match(s, j, <<"t", "r", "u", "e">>) THEN Ok(JBool(TRUE), j + 4)
     ELSE IF Match(s, j, <<"f", "a", "l", "s", "e">>) THEN Ok(JBool(FALSE), j + 5)
     ELSE IF Match(s, j, <<"n", "u", "l", "l">>) THEN Ok(JNull, j + 4)
     ELSE Fail

\* JSON.parse(text): [ok |-> FALSE] stands for the SyntaxError it throws
JSONparse(text) ==
  LET r == ParseValue(text, 1)
  IN IF r.ok /\ SkipWs(text, r.i) > Len(text) THEN [ok |-> TRUE, v |-> r.v]
     ELSE [ok |-> FALSE, v |-> JUndefined]

(***************************************************************************)
(* Bounds of the model                                                     *)
(***************************************************************************)
\* successful saves in one run
MaxSaves == 2

\* how many of AllTexts the user may type into the edit buffer
NumTexts == 4

\* how many of AllDocs a run may start from
NumDocs == 2

Min(a, b) == IF a < b THEN a ELSE b

\* the texts a user types: a JSON object, a number, a lone minus sign, a
\* half-quoted word, a plain word, a number behind a form feed, an array, an
\* object behind a space
AllTexts ==
  <<<<"{", "\"", "b", "\"", ":", "2", "}">>,
    <<"5">>,
    <<"-">>,
    <<"\"", "y">>,
    <<"x">>,
    <<"\f", "1">>,
    <<"[", "1", "]">>,
    <<" ", "{", "\"", "c", "\"", ":", "\"", "1", "\"", "}">>>>

Texts == {AllTexts[i] : i \in 1..Min(NumTexts, Len(AllTexts))}

P(k, v) == [k |-> <<k>>, v |-> v]

\* the documents a run starts from, as JSON values
AllDocs ==
  <<JObj(<<P("a", JObj(<<P("b", JInt(1))>>)), P("c", JObj(<<>>))>>),
    JArr(<<JStr(<<"1">>), JBool(TRUE), JNull>>),
    JObj(<<P("n", JInt(2)), P("s", JArr(<<JStr(<<"x">>)>>))>>),
    JInt(7)>>

Docs == {JSONstringify(AllDocs[i]) : i \in 1..Min(NumDocs, Len(AllDocs))}

(***************************************************************************)
(* Paths and nodes                                                         *)
(***************************************************************************)
\* a path segment is a property name, [k |-> text], or an index, [i |-> n]
Key(k) == [k |-> k]

Idx(i) == [i |-> i]

IsIdx(seg) == "i" \in DOMAIN seg

SegKey(seg) == IF IsIdx(seg) THEN NatText(seg.i) ELSE seg.k

\* no node selected: nodeData is undefined
NoNode == [id |-> 0, text |-> <<>>, path |-> <<>>]

\* error === null
Null == "null"

\* jsonc-parser's parse on a document (the documents of the model are valid JSON)
parse(json) == JSONparse(json).v

\* current[segment]
Member(cur, seg) ==
  CASE cur.t = "object" -> Field(cur.o, SegKey(seg))
    [] cur.t = "array" /\ IsIdx(seg) ->
         IF seg.i < Len(cur.a) THEN cur.a[seg.i + 1] ELSE JUndefined
    [] cur.t = "string" /\ IsIdx(seg) ->
         IF seg.i < Len(cur.s) THEN JStr(<<cur.s[seg.i + 1]>>) ELSE JUndefined
    [] OTHER -> JUndefined

\* the loop of getValueAtPath; ok is FALSE when indexing null or undefined throws
RECURSIVE Walk(_, _)
Walk(cur, path) ==
  IF path = <<>> THEN [ok |-> TRUE, v |-> cur]
  ELSE IF cur.t \in {"null", "undefined"} THEN [ok |-> FALSE, v |-> JUndefined]
  ELSE Walk(Member(cur, Head(path)), Tail(path))

getValueAtPath(json, path) ==
  LET w == Walk(parse(json), path) IN IF w.ok THEN w.v ELSE JNull

\* a row's key is truthy: neither null nor the empty string
Truthy(key) == key.t = "string" /\ key.s # <<>>

RECURSIVE RowsObject(_, _)
RowsObject(rows, obj) ==
  IF rows = <<>> THEN obj
  ELSE LET row == Head(rows)
       IN RowsObject(Tail(rows),
                     IF row.type \notin {"array", "object"} /\ Truthy(row.key)
                     THEN ObjSet(obj, row.key.s, row.value)
                     ELSE obj)

normalizeNodeData(nodeRows) ==
  IF nodeRows = <<>> THEN <<"{", "}">>
  ELSE IF Len(nodeRows) = 1 /\ ~Truthy(nodeRows[1].key) THEN ToStr(nodeRows[1].value)
  ELSE JSONstringify2(JObj(RowsObject(nodeRows, <<>>)))

(***************************************************************************)
(* The graph built from a document: one node per object, its rows the      *)
(* object's properties; one node per primitive outside an object, with a   *)
(* single keyless row; an array has no node of its own.  Ids count the     *)
(* nodes in document order.                                                *)
(***************************************************************************)
Row(key, v) ==
  [key |-> key, value |-> IF v.t \in {"object", "array"} THEN JUndefined ELSE v, type |-> v.t]

RECURSIVE Traverse(_, _)
Traverse(v, path) ==
  CASE v.t = "object" ->
         <<[text |-> [i \in DOMAIN v.o |-> Row(JStr(v.o[i].k), v.o[i].v)], path |-> path]>>
           \o Concat([i \in DOMAIN v.o |->
                        IF v.o[i].v.t \in {"object", "array"}
                        THEN Traverse(v.o[i].v, Append(path, Key(v.o[i].k)))
                        ELSE <<>>])
    [] v.t = "array" ->
         Concat([i \in DOMAIN v.a |-> Traverse(v.a[i], Append(path, Idx(i - 1)))])
    [] OTHER -> <<[text |-> <<Row(JNull, v)>>, path |-> path]>>

parser(json) ==
  LET ns == Traverse(parse(json), <<>>)
  IN [i \in DOMAIN ns |-> [id |-> i, text |-> ns[i].text, path |-> ns[i].path]]

(***************************************************************************)
(* handleSave's computation                                                *)
(***************************************************************************)
RECURSIVE TrimStart(_)
TrimStart(s) == IF s # <<>> /\ Head(s) \in JsWs THEN TrimStart(Tail(s)) ELSE s

RECURSIVE TrimEnd(_)
TrimEnd(s) ==
  IF s # <<>> /\ s[Len(s)] \in JsWs THEN TrimEnd(SubSeq(s, 1, Len(s) - 1)) ELSE s

trim(s) == TrimEnd(TrimStart(s))

\* /^[-0-9.]+$/.test(s)
NumericLike(s) == s # <<>> /\ \A i \in DOMAIN s : s[i] \in DigitSet \cup {"-", "."}

Keywords == {<<"n", "u", "l", "l">>, <<"t", "r", "u", "e">>, <<"f", "a", "l", "s", "e">>}

\* s.replace(/^"|"$/g, "")
StripQuotes(s) ==
  LET a == IF s # <<>> /\ Head(s) = "\"" THEN Tail(s) ELSE s
  IN IF a # <<>> /\ a[Len(a)] = "\"" THEN SubSeq(a, 1, Len(a) - 1) ELSE a

\* the edited value; ok is FALSE when JSON.parse(trimmed) throws out of the catch
EditedValue(text) ==
  LET trimmed == trim(text)
  IN IF JSONparse(text).ok THEN JSONparse(text)
     ELSE IF NumericLike(trimmed) \/ trimmed \in Keywords THEN JSONparse(trimmed)
     ELSE [ok |-> TRUE, v |-> JStr(StripQuotes(trimmed))]

\* { ...a, ...b }
RECURSIVE Spread(_, _)
Spread(a, b) == IF b = <<>> THEN a ELSE Spread(ObjSet(a, Head(b).k, Head(b).v), Tail(b))

\* faulty variant: the edited object replaces the original one, nothing is merged
ValueToSet_NoMerge(originalValue, editedValue) == editedValue

ValueToSet(originalValue, editedValue) ==
  IF IsPlainObject(originalValue) /\ IsPlainObject(editedValue)
  THEN JObj(Spread(originalValue.o, editedValue.o))
  ELSE editedValue

\* jsonc-parser's modify on the parsed document: the value at path replaced (a
\* missing property or index is added); ok is FALSE when it throws because the
\* parent is no container of the segment's kind
RECURSIVE SetAt(_, _, _)
SetAt(cur, path, v) ==
  IF path = <<>> THEN [ok |-> TRUE, v |-> v]
  ELSE LET seg == Head(path)
           sub == SetAt(Member(cur, seg), Tail(path), v)
       IN CASE cur.t = "undefined" ->
                 [ok |-> sub.ok,
                  v |-> IF IsIdx(seg) THEN JArr(<<sub.v>>) ELSE JObj(<<[k |-> seg.k, v |-> sub.v]>>)]
            [] cur.t = "object" /\ ~IsIdx(seg) ->
                 [ok |-> sub.ok, v |-> JObj(ObjSet(cur.o, seg.k, sub.v))]
            [] cur.t = "array" /\ IsIdx(seg) ->
                 [ok |-> sub.ok,
                  v |-> JArr(IF seg.i < Len(cur.a)
                             THEN [cur.a EXCEPT ![seg.i + 1] = sub.v]
                             ELSE Append(cur.a, sub.v))]
            [] OTHER -> [ok |-> FALSE, v |-> JUndefined]

\* faulty variant: the path is dropped and the value to set becomes the whole document
NewJson_IgnoresPath(original, path, valueToSet) ==
  [ok |-> TRUE, json |-> JSONstringify(valueToSet)]

\* applyEdits(original, modify(original, path, valueToSet)), in JSON.stringify's
\* layout: the library's text differs from it in white space only
NewJson(original, path, valueToSet) ==
  LET r == SetAt(parse(original), path, valueToSet)
  IN [ok |-> r.ok, json |-> IF r.ok THEN JSONstringify(r.v) ELSE original]

(***************************************************************************)
(* State                                                                   *)
(***************************************************************************)
VARIABLES
  contents,      \* useFile: the editor's text
  hasChanges,    \* useFile: the unsaved-changes flag
  json,          \* useJson: the document
  nodes,         \* useGraph: the nodes of the graph
  selectedNode,  \* useGraph: the node the modal shows, or NoNode
  opened,        \* the modal's opened prop
  isEditing,     \* React state
  value,         \* React state: the edit buffer
  error,         \* React state: the message of a failed save, or Null
  timers,        \* pending setTimeout callbacks: the nodeIdToUpdate of each, oldest first
  saves,         \* successful saves so far
  op,            \* history: the handler that ran last
  orig           \* history: the document before the last successful save

vars ==
  <<contents, hasChanges, json, nodes, selectedNode, opened, isEditing, value, error,
    timers, saves, op, orig>>

stores == <<contents, hasChanges, json, nodes>>

Init ==
  /\ json \in Docs
  /\ contents = json
  /\ hasChanges = FALSE
  /\ nodes = parser(json)
  /\ selectedNode = NoNode
  /\ opened = FALSE
  /\ isEditing = FALSE
  /\ value = normalizeNodeData(NoNode.text)
  /\ error = Null
  /\ timers = <<>>
  /\ saves = 0
  /\ op = "init"
  /\ orig = json

\* the reset effect: it runs after a render in which the selected node's id or
\* opened differs from the render before
ResetEffect(node) ==
  /\ value' = normalizeNodeData(node.text)
  /\ isEditing' = FALSE
  /\ error' = Null

\* a render with a new selected node and opened prop, and the effect after it
Render(node, isOpened) ==
  /\ selectedNode' = node
  /\ opened' = isOpened
  /\ IF node.id # selectedNode.id \/ isOpened # opened
     THEN ResetEffect(node)
     ELSE UNCHANGED <<value, isEditing, error>>

\* a click on a node of the graph: it is selected and the modal opens
SelectNode(n) ==
  /\ ~opened
  /\ Render(n, TRUE)
  /\ op' = "select"
  /\ UNCHANGED <<stores, timers, saves, orig>>

onClose ==
  /\ opened
  /\ Render(selectedNode, FALSE)
  /\ op' = "close"
  /\ UNCHANGED <<stores, timers, saves, orig>>

handleEdit ==
  /\ opened
  /\ ~isEditing
  /\ isEditing' = TRUE
  /\ op' = "edit"
  /\ UNCHANGED <<stores, selectedNode, opened, value, error, timers, saves, orig>>

\* the textarea's onChange
onChange(text) ==
  /\ opened
  /\ isEditing
  /\ value' = text
  /\ op' = "change"
  /\ UNCHANGED <<stores, selectedNode, opened, isEditing, error, timers, saves, orig>>

\* faulty variant: Cancel leaves the edit buffer as typed
handleCancel_KeepsBuffer ==
  /\ opened
  /\ isEditing
  /\ isEditing' = FALSE
  /\ error' = Null
  /\ op' = "cancel"
  /\ UNCHANGED <<stores, selectedNode, opened, value, timers, saves, orig>>

handleCancel ==
  /\ opened
  /\ isEditing
  /\ value' = normalizeNodeData(selectedNode.text)
  /\ isEditing' = FALSE
  /\ error' = Null
  /\ op' = "cancel"
  /\ UNCHANGED <<stores, selectedNode, opened, timers, saves, orig>>

\* faulty variant: the graph is not rebuilt
UpdateStores_SkipsGraph(newJson) ==
  /\ contents' = newJson
  /\ hasChanges' = TRUE
  /\ json' = newJson
  /\ UNCHANGED nodes

\* setContents, setJson, setGraph
UpdateStores(newJson) ==
  /\ contents' = newJson
  /\ hasChanges' = TRUE
  /\ json' = newJson
  /\ nodes' = parser(newJson)

\* the try block from the store updates on
SaveSucceeded(newJson, nodeIdToUpdate) ==
  /\ UpdateStores(newJson)
  /\ timers' = Append(timers, nodeIdToUpdate)
  /\ isEditing' = FALSE
  /\ error' = Null
  /\ saves' = saves + 1
  /\ orig' = json
  /\ UNCHANGED <<selectedNode, opened, value>>

\* faulty variant: a failed save leaves edit mode, as a successful one does
SaveFailed_LeavesEditMode(message) ==
  /\ error' = message
  /\ isEditing' = FALSE
  /\ UNCHANGED <<stores, selectedNode, opened, value, timers, saves, orig>>

\* the catch block
SaveFailed(message) ==
  /\ error' = message
  /\ UNCHANGED <<stores, selectedNode, opened, isEditing, value, timers, saves, orig>>

\* what the try block computes from the state handleSave sees
SaveEdited == EditedValue(value)

SaveValueToSet ==
  ValueToSet(getValueAtPath(json, selectedNode.path), SaveEdited.v)

SaveNewJson == NewJson(json, selectedNode.path, SaveValueToSet)

\* the try block throws: JSON.parse(trimmed) or modify does
SaveThrows == ~SaveEdited.ok \/ ~SaveNewJson.ok

handleSave ==
  /\ opened
  /\ isEditing
  /\ selectedNode # NoNode
  /\ saves < MaxSaves
  /\ op' = "save"
  /\ IF SaveThrows
     THEN SaveFailed(IF ~SaveEdited.ok THEN "Unexpected token" ELSE "Can not add to parent")
     ELSE SaveSucceeded(SaveNewJson.json, selectedNode.id)

\* the callback of the oldest pending timer
Timeout ==
  /\ timers # <<>>
  /\ LET nodeIdToUpdate == Head(timers)
         found == {i \in DOMAIN nodes : nodes[i].id = nodeIdToUpdate}
         updatedNode == nodes[CHOOSE i \in found : \A j \in found : i <= j]
     IN IF found # {}
        THEN Render(updatedNode, opened)
        ELSE UNCHANGED <<selectedNode, opened, value, isEditing, error>>
  /\ timers' = Tail(timers)
  /\ op' = "timeout"
  /\ UNCHANGED <<stores, saves, orig>>

Next ==
  \/ \E i \in DOMAIN nodes : SelectNode(nodes[i])
  \/ onClose
  \/ handleEdit
  \/ \E text \in Texts : onChange(text)
  \/ handleCancel
  \/ handleSave
  \/ Timeout

Spec == Init /\ [][Next]_vars

(***************************************************************************)
(* Claims                                                                  *)
(***************************************************************************)
\* the state right after a successful save: selectedNode and value are those the
\* save read, orig is the document it read, json the document it wrote
SavedOk == op = "save" /\ error = Null

\* the state right after a failed save
SaveRejected == op = "save" /\ error # Null

\* new is old with nothing changed but what lies at path
RECURSIVE SameOutside(_, _, _)
SameOutside(old, new, path) ==
  IF path = <<>> THEN TRUE
  ELSE LET seg == Head(path)
       IN CASE old.t = "object" /\ new.t = "object" ->
                 /\ ~IsIdx(seg)
                 /\ HasKey(old.o, seg.k)
                 /\ Len(old.o) = Len(new.o)
                 /\ \A i \in DOMAIN old.o :
                      /\ new.o[i].k = old.o[i].k
                      /\ old.o[i].k # seg.k => new.o[i].v = old.o[i].v
                 /\ SameOutside(Field(old.o, seg.k), Field(new.o, seg.k), Tail(path))
            [] old.t = "array" /\ new.t = "array" ->
                 /\ IsIdx(seg)
                 /\ seg.i < Len(old.a)
                 /\ Len(old.a) = Len(new.a)
                 /\ \A i \in DOMAIN old.a : i # seg.i + 1 => new.a[i] = old.a[i]
                 /\ SameOutside(old.a[seg.i + 1], new.a[seg.i + 1], Tail(path))
            [] OTHER -> FALSE

\* C1: a successful Save changes the document only at the selected node's path:
\* the value there is the value to set, and everything outside the path is as
\* it was in the document the save read.
C1_SaveChangesOnlyPath ==
  SavedOk =>
    /\ SameOutside(parse(orig), parse(json), selectedNode.path)
    /\ Walk(parse(json), selectedNode.path).v
         = ValueToSet(getValueAtPath(orig, selectedNode.path), EditedValue(value).v)

\* a save below the root that changed the document
C1_Witness == SavedOk /\ selectedNode.path # <<>> /\ json # orig

\* C2: when the original value at the path and the edited value are both plain
\* objects, the saved value keeps every original field the edited text does not
\* name, has every edited field with its edited value, and has no other field;
\* in every other case the saved value is the edited value.
C2_SaveMergesObjects ==
  SavedOk =>
    LET ov == getValueAtPath(orig, selectedNode.path)
        ev == EditedValue(value).v
        nv == getValueAtPath(json, selectedNode.path)
    IN IF IsPlainObject(ov) /\ IsPlainObject(ev)
       THEN /\ nv.t = "object"
            /\ Keys(nv.o) = Keys(ov.o) \cup Keys(ev.o)
            /\ \A k \in Keys(ov.o) \ Keys(ev.o) : Field(nv.o, k) = Field(ov.o, k)
            /\ \A k \in Keys(ev.o) : Field(nv.o, k) = Field(ev.o, k)
       ELSE nv = ev

\* a save of an edited object into an object with a nested field the text does not name
C2_Witness ==
  /\ SavedOk
  /\ LET ov == getValueAtPath(orig, selectedNode.path)
         ev == EditedValue(value).v
     IN /\ IsPlainObject(ov) /\ IsPlainObject(ev) /\ ev.o # <<>>
        /\ \E k \in Keys(ov.o) \ Keys(ev.o) : Field(ov.o, k).t \in {"object", "array"}

\* C3: whenever no Save is executing the file store, the JSON store and the graph
\* store hold the same document, and a successful Save leaves hasChanges set.
C3_StoresAgree ==
  /\ contents = json
  /\ nodes = parser(json)
  /\ SavedOk => hasChanges

\* a save that wrote a new document to the stores
C3_Witness == SavedOk /\ json # orig /\ contents = json

\* C4: an edited text that is not valid JSON is saved as a string, the trimmed
\* text without one leading and one trailing double quote, and no error is reported.
C4_InvalidJsonSavedAsString ==
  (op = "save" /\ ~JSONparse(value).ok) =>
    /\ error = Null
    /\ getValueAtPath(json, selectedNode.path) = JStr(StripQuotes(trim(value)))

\* C5: a successful Save keeps the modal open, and once its delayed callback has
\* run the selected node is the node of the rebuilt graph with the saved node's id.
C5_SavedNodeReselected ==
  [][/\ (op' = "save" /\ error' = Null) => opened'
     /\ op' = "timeout" =>
          /\ selectedNode'.id = Head(timers)
          /\ \E i \in DOMAIN nodes' : nodes'[i] = selectedNode']_vars

\* C6: outside edit mode the edit buffer is the normalized text of the selected node.
C6_BufferIsNormalizedText ==
  ~isEditing => value = normalizeNodeData(selectedNode.text)

\* C7: Cancel leaves edit mode, clears the error, resets the buffer to the
\* normalized text of the selected node, and changes neither a store nor the
\* selected node nor the pending timers.
C7_CancelDiscards ==
  [][op' = "cancel" =>
       /\ ~isEditing'
       /\ error' = Null
       /\ value' = normalizeNodeData(selectedNode.text)
       /\ UNCHANGED <<contents, hasChanges, json, nodes, selectedNode, opened, timers>>]_vars

\* a Cancel while a re-selection is pending
C7_Witness == op = "cancel" /\ selectedNode # NoNode /\ timers # <<>> /\ ~isEditing

\* C8: a Save whose try block throws records the error, stays in edit mode with
\* the buffer as typed, changes neither a store nor the selected node and
\* schedules nothing; and in every state an error implies edit mode.
C8_FailedSaveAtomic ==
  /\ [](error # Null => isEditing)
  /\ [][(op' = "save" /\ SaveThrows) =>
          /\ error' # Null
          /\ isEditing'
          /\ UNCHANGED <<value, contents, hasChanges, json, nodes, selectedNode, opened, timers>>]_vars

\* a save that threw
C8_Witness == SaveRejected /\ isEditing /\ SaveThrows

\* C9: Edit and then Save with the buffer unchanged leaves the document's value as it was.
C9_UnchangedSaveIsNoOp ==
  (/\ SavedOk
   /\ \E i \in DOMAIN parser(orig) : parser(orig)[i] = selectedNode
   /\ value = normalizeNodeData(selectedNode.text))
    => parse(json) = parse(orig)

\* C10: the delayed callback changes the selected node only if the selected node
\* still has the saved node's id, and discards no edit in progress on another node.
C10_TimeoutKeepsOtherSelection ==
  [][(op' = "timeout" /\ selectedNode.id # Head(timers)) =>
       /\ selectedNode' = selectedNode
       /\ isEditing' = isEditing
       /\ value' = value]_vars
====
